---- MODULE Spec2Model ----
(***************************************************************************)
(* Model of tasks/vrp.py: the batched state of the capacitated vehicle     *)
(* routing task.  VehicleRoutingDataset.__init__ generates the instances,  *)
(* update_dynamic applies one chosen node per sample to the (load, demand) *)
(* tensor, update_mask computes the legality mask and reward sums the     *)
(* length of a recorded tour.                                              *)
(*                                                                         *)
(* Spec is the loop under arbitrary choices, SpecLegal and SpecEpisode     *)
(* under mask-legal ones, SpecWide a batch one sample larger, SpecDrift a  *)
(* dataset whose max_load does not convert exactly, SpecInit a call of     *)
(* __init__ on drawn arguments and SpecReward a call of reward.            *)
(*                                                                         *)
(* The dynamic tensor holds float32 values normalised by max_load.  Every  *)
(* stored value is kept here as the float32 it is, <<sign, mant, exp>>     *)
(* standing for sign * mant * 2^(-exp), and the conversions of lines 38,   *)
(* 42, 70, 122-129 and 139 are computed in float32 arithmetic (round to    *)
(* nearest, ties to even; .int() truncates toward zero).                   *)
(*                                                                         *)
(* Batches hold at least two samples: for those, .squeeze() at lines 133   *)
(* and 143 leaves the index tensors one-dimensional (or, for a single      *)
(* visiting sample at line 133, gives a 0-dim integer index that selects   *)
(* the same row).                                                          *)
(***************************************************************************)
EXTENDS Integers, Sequences, FiniteSets, TLC

\* ------------------------------------------------------------- parameters
\* num_samples of the batch the loader hands to update_mask/update_dynamic
BatchSize == 2
\* input_size: the number of customers (node 0 is the depot)
InputSize == 2
\* max_load, the vehicle capacity
MaxLoad == 3
\* max_demand, the largest initial customer demand
MaxDemand == 2

Nodes == 0..InputSize
Customers == 1..InputSize

\* ------------------------------------------------------------- state
VARIABLES
    num_samples,   \* self.num_samples: the size of the batch
    max_load,      \* self.max_load (before __init__ ran: its argument)
    max_demand,    \* self.max_demand (before __init__ ran: its argument)
    dynamic,       \* the dynamic tensor the decision loop holds
    chosen_idx,    \* the node chosen per sample at the last step (None before)
    mask,          \* the mask update_mask returned last (<< >> before)
    unserved,      \* per sample: the generated customer demand in integer
                   \* units, less the load delivered at customer visits so far
    exact,         \* per sample: the load and demands update_dynamic would
                   \* leave if it computed on integers, without float32
    static,        \* reward's argument: per sample the location of each node
    tour_indices,  \* reward's argument: per sample the nodes chosen, in order
    tour_len,      \* what reward returned last (<< >> before)
    pc             \* which call comes next

vars == <<num_samples, max_load, max_demand, dynamic, chosen_idx, mask,
          unserved, exact, static, tour_indices, tour_len, pc>>

\* the variables reward reads and writes
rvars == <<static, tour_indices, tour_len>>

\* ------------------------------------------------------------- float32
\* number of significand bits of torch's default dtype (float32)
MantBits == 24
MantHi == 2^MantBits
MantLo == 2^(MantBits - 1)

FZero == <<1, 0, 0>>

RECURSIVE FNormalize(_, _, _)
\* the canonical triple of s * m * 2^(-e), for 0 <= m < 2^24
FNormalize(s, m, e) ==
    IF m = 0 THEN FZero
    ELSE IF m < MantLo THEN FNormalize(s, 2 * m, e + 1)
    ELSE <<s, m, e>>

RECURSIVE DropBits(_)
\* how many low bits x must lose to fit 24 bits
DropBits(x) == IF x < MantHi THEN 0 ELSE 1 + DropBits(x \div 2)

\* s * x * 2^(-e) rounded to float32: nearest, ties to even
FRound(s, x, e) ==
    LET d    == DropBits(x)
        q    == x \div (2^d)
        rem  == x % (2^d)
        half == IF d = 0 THEN 0 ELSE 2^(d - 1)
        up   == d > 0 /\ (rem > half \/ (rem = half /\ q % 2 = 1))
        q2   == IF up THEN q + 1 ELSE q
    IN  IF q2 = MantHi THEN <<s, MantLo, e - d - 1>>
        ELSE FNormalize(s, q2, e - d)

RECURSIVE DivLoop(_, _, _, _)
\* long division: <<q, r, e>> with q = floor(n * 2^e / c) of 24 bits, r the rest
DivLoop(q, r, e, c) ==
    IF q >= MantLo THEN <<q, r, e>>
    ELSE DivLoop(2 * q + ((2 * r) \div c), (2 * r) % c, e + 1, c)

\* float32 k / c for integers k >= 0, c > 0 (lines 42, 126, 129)
FDivInt(k, c) ==
    IF k = 0 THEN FZero
    ELSE LET t  == DivLoop(k \div c, k % c, 0, c)
             q  == t[1]
             r  == t[2]
             e  == t[3]
             up == 2 * r > c \/ (2 * r = c /\ q % 2 = 1)
             q2 == IF up THEN q + 1 ELSE q
         IN  IF q2 = MantHi THEN <<1, MantLo, e - 1>> ELSE <<1, q2, e>>

\* float32 f * c for an integer c > 0 (lines 70, 122, 123)
FMulInt(f, c) == FRound(f[1], f[2] * c, f[3])

\* FSubOne without the subtraction: the depot slot is given new_load itself
FSubOneSkipped(f) == f

\* float32 f - 1 for 0 <= f (line 139)
FSubOne(f) ==
    LET one == 2^(f[3])
    IN  IF f = FZero THEN <<-1, MantLo, MantBits - 1>>
        ELSE IF f[2] >= one THEN FRound(1, f[2] - one, f[3])
        ELSE FRound(-1, one - f[2], f[3])

\* .int(): truncation toward zero
FTrunc(f) ==
    IF f[3] >= 0 THEN f[1] * (f[2] \div (2^(f[3])))
    ELSE f[1] * f[2] * (2^(0 - f[3]))

\* (max_load * x).int() of lines 70, 122, 123
ToUnitsCalc(f) == FTrunc(FMulInt(f, max_load))

\* a max_load of 23 is one for which (k / max_load * max_load).int() is not k
\* for every k (it gives 13 for k = 14 and 6 for k = 7)
DriftLoad == 23
\* max_demand=9, the default of __init__
DefaultMaxDemand == 9

\* the values of max_load whose conversions are tabulated
Capacities == {MaxLoad, DriftLoad}

\* the integer-valued tensor divided by max_load (lines 42, 126, 129)
NormTab == [c \in Capacities |-> [k \in 0..(2 * c) |-> FDivInt(k, c)]]
Norm(k) ==
    IF max_load \in Capacities /\ k \in 0..(2 * max_load)
    THEN NormTab[max_load][k]
    ELSE FDivInt(k, max_load)

\* max_load / float(max_load) of line 38, and the 1. of line 143
FOne == <<1, MantLo, MantBits - 1>>

\* the values a slot of the dynamic tensor can hold: k / max_load, and the
\* depot slot's (new_load - 1) of line 139
FloatsStored ==
    [c \in Capacities |->
        {FDivInt(k, c) : k \in 0..c} \cup {FSubOne(FDivInt(k, c)) : k \in 0..c}]

UnitsTab ==
    [c \in Capacities |-> [f \in FloatsStored[c] |-> FTrunc(FMulInt(f, c))]]
\* (x * self.max_load).int() of a stored value x
ToUnits(f) ==
    IF max_load \in Capacities /\ f \in FloatsStored[max_load]
    THEN UnitsTab[max_load][f]
    ELSE ToUnitsCalc(f)

\* torch.clamp(x, min=0) of lines 126 and 129 is Max(x, 0)
Max(a, b) == IF a >= b THEN a ELSE b

\* chosen_idx=None, the default of update_mask's parameter
NoneIdx == 0 - 1

Samples == 1..num_samples

RECURSIVE SumTo(_, _)
\* row[1] + ... + row[n]
SumTo(row, n) == IF n = 0 THEN 0 ELSE row[n] + SumTo(row, n - 1)

\* ------------------------------------------------------------- __init__
\* the tensor of line 44 for the demands dem (sample -> customer -> 1..max_demand)
Generate(n, dem) ==
    [i \in 1..n |->
        [loads   |-> [j \in Nodes |-> FOne],
         demands |-> [j \in Nodes |-> IF j = 0 THEN FZero ELSE Norm(dem[i][j])]]]

\* the integer loads and demands the tensor of line 44 stands for
GenerateExact(n, dem) ==
    [i \in 1..n |->
        [load    |-> max_load,
         demands |-> [j \in Nodes |-> IF j = 0 THEN 0 ELSE dem[i][j]]]]

\* Rejects with the comparison of the message of line 23, "must be >"
RejectsEqual(ml, md) == ml <= md

\* line 22: if max_load < max_demand, __init__ raises ValueError
Rejects(ml, md) == ml < md

\* the demands torch.randint(1, max_demand + 1, dynamic_shape) can draw
DemandDraws(n, md) == [1..n -> [Customers -> 1..md]]

\* the state after VehicleRoutingDataset(n, InputSize, ml, md) returned
InitWith(n, ml, md) ==
    /\ ~Rejects(ml, md)
    /\ num_samples = n
    /\ max_load = ml
    /\ max_demand = md
    /\ \E dem \in DemandDraws(n, md) :
          /\ dynamic = Generate(n, dem)
          /\ exact = GenerateExact(n, dem)
          /\ unserved = [i \in 1..n |-> SumTo(dem[i], InputSize)]
    /\ chosen_idx = [i \in 1..n |-> NoneIdx]
    /\ mask = << >>
    /\ static = << >>
    /\ tour_indices = << >>
    /\ tour_len = << >>
    /\ pc = "dynamic"

InitBatch(n) == InitWith(n, MaxLoad, MaxDemand)

Init == InitBatch(BatchSize)

\* the arguments of a call of __init__ that has not run yet
InitArgs ==
    /\ num_samples = BatchSize
    /\ max_load \in 1..MaxLoad
    /\ max_demand \in 1..MaxLoad
    /\ dynamic = << >>
    /\ exact = << >>
    /\ unserved = << >>
    /\ chosen_idx = << >>
    /\ mask = << >>
    /\ static = << >>
    /\ tour_indices = << >>
    /\ tour_len = << >>
    /\ pc = "init"

\* __init__ (lines 19-44): raises, or leaves the generated tensor
Construct ==
    /\ pc = "init"
    /\ IF Rejects(max_load, max_demand)
       THEN /\ pc' = "ValueError"
            /\ UNCHANGED <<dynamic, exact, unserved, chosen_idx>>
       ELSE /\ \E dem \in DemandDraws(num_samples, max_demand) :
                  /\ dynamic' = Generate(num_samples, dem)
                  /\ exact' = GenerateExact(num_samples, dem)
                  /\ unserved' =
                        [i \in Samples |-> SumTo(dem[i], InputSize)]
            /\ chosen_idx' = [i \in Samples |-> NoneIdx]
            /\ pc' = "dynamic"
    /\ UNCHANGED <<num_samples, max_load, max_demand, mask, rvars>>

NextInit == Construct

SpecInit == InitArgs /\ [][NextInit]_vars

\* ------------------------------------------------------------- update_dynamic
\* how many of the samples 1..i visit a customer: the position masked_scatter_
\* reads its source at for sample i
RECURSIVE VisitRank(_, _)
VisitRank(visit, i) ==
    IF i = 0 THEN 0
    ELSE VisitRank(visit, i - 1) + (IF visit[i] THEN 1 ELSE 0)

\* demand.masked_scatter_(visit.unsqueeze(1), new_demand.squeeze(1)): the k-th
\* sample with visit set receives the k-th element of the source
MaskedScatter(demand, visit, source) ==
    [i \in DOMAIN demand |->
        IF visit[i] THEN source[VisitRank(visit, i)] ELSE demand[i]]

\* NewLoad with the demand added instead of subtracted
NewLoadAdds(load_int, demand_int) == Norm(load_int + demand_int)

\* line 126: new_load = clamp(load_int - demand_int, min=0) / max_load
NewLoad(load_int, demand_int) == Norm(Max(load_int - demand_int, 0))

\* line 129: new_demand = clamp(demand_int - load_int, min=0) / max_load
NewDemand(load_int, demand_int) == Norm(Max(demand_int - load_int, 0))

\* lines 119-139, for a batch in which some sample visits a customer
VisitBranch(dyn, ch) ==
    LET S          == DOMAIN dyn
        visit      == [i \in S |-> ch[i] # 0]
        load       == [i \in S |-> dyn[i].loads[ch[i]]]
        demand     == [i \in S |-> dyn[i].demands[ch[i]]]
        load_int   == [i \in S |-> ToUnits(load[i])]
        demand_int == [i \in S |-> ToUnits(demand[i])]
        new_load   == [i \in S |-> NewLoad(load_int[i], demand_int[i])]
        clamped    == [i \in S |-> NewDemand(load_int[i], demand_int[i])]
        new_demand == MaskedScatter(demand, visit, clamped)
    IN  [i \in S |->
            [loads   |-> IF visit[i] THEN [j \in Nodes |-> new_load[i]]
                         ELSE dyn[i].loads,
             demands |-> [j \in Nodes |->
                            IF j = 0
                            THEN (IF visit[i] THEN FSubOne(new_load[i])
                                  ELSE new_demand[i])
                            ELSE IF j = ch[i] THEN new_demand[i]
                            ELSE dyn[i].demands[j]]]]

\* DepotBranch with line 144 written without its column index:
\* all_demands[depot] = 0. clears the whole demand row
DepotBranchClearsRow(dyn, ch) ==
    [i \in DOMAIN dyn |->
        IF ch[i] = 0
        THEN [loads   |-> [j \in Nodes |-> FOne],
              demands |-> [j \in Nodes |-> FZero]]
        ELSE dyn[i]]

\* lines 142-144, for a batch in which some sample returns to the depot
DepotBranch(dyn, ch) ==
    [i \in DOMAIN dyn |->
        IF ch[i] = 0
        THEN [loads   |-> [j \in Nodes |-> FOne],
              demands |-> [dyn[i].demands EXCEPT ![0] = FZero]]
        ELSE dyn[i]]

\* lines 111-144 of update_dynamic: the writes through all_loads and
\* all_demands, on the contents dyn of the tensor they are views of
UpdateDynamic(dyn, ch) ==
    LET S  == DOMAIN dyn
        t1 == IF \E i \in S : ch[i] # 0 THEN VisitBranch(dyn, ch) ELSE dyn
    IN  IF \E i \in S : ch[i] = 0 THEN DepotBranch(t1, ch) ELSE t1

\* Tensor when line 110 binds the argument itself (tensor = dynamic)
TensorAliased == "dynamic"

\* line 110: tensor = dynamic.clone() is a tensor object of its own
Tensor == "tensor"

\* update_dynamic(dynamic, chosen_idx) on tensor objects: "dynamic" is the
\* object passed in, lines 111-144 write to the object line 110 binds, and
\* line 147 returns a copy of it.  Gives the contents of the argument after
\* the call and the tensor returned.
UpdateDynamicCall(dyn, ch) ==
    LET heap    == [dynamic |-> dyn, tensor |-> dyn]
        written == [heap EXCEPT ![Tensor] = UpdateDynamic(heap[Tensor], ch)]
    IN  [dynamic |-> written.dynamic, result |-> written[Tensor]]

\* update_dynamic on integers: lines 119-144 without the conversions
UpdateExact(ex, ch) ==
    LET S          == DOMAIN ex
        visit      == [i \in S |-> ch[i] # 0]
        load       == [i \in S |-> ex[i].load]
        demand     == [i \in S |-> ex[i].demands[ch[i]]]
        new_load   == [i \in S |-> Max(load[i] - demand[i], 0)]
        clamped    == [i \in S |-> Max(demand[i] - load[i], 0)]
        new_demand == MaskedScatter(demand, visit, clamped)
        t1 == IF \E i \in S : visit[i]
              THEN [i \in S |->
                     [load    |-> IF visit[i] THEN new_load[i] ELSE load[i],
                      demands |-> [j \in Nodes |->
                                     IF j = 0
                                     THEN (IF visit[i]
                                           THEN new_load[i] - max_load
                                           ELSE new_demand[i])
                                     ELSE IF j = ch[i] THEN new_demand[i]
                                     ELSE ex[i].demands[j]]]]
              ELSE ex
    IN  [i \in S |->
            IF ch[i] = 0
            THEN [load    |-> max_load,
                  demands |-> [t1[i].demands EXCEPT ![0] = 0]]
            ELSE t1[i]]

\* ------------------------------------------------------------- update_mask
\* NoDemandLeft without the [:, 1:] slice: the depot slot is tested too
NoDemandLeftAllSlots(demands) ==
    \A i \in DOMAIN demands : \A j \in Nodes : demands[i][j] = 0

\* line 78: demands[:, 1:].eq(0).all(), over the whole batch
NoDemandLeft(demands) ==
    \A i \in DOMAIN demands : \A j \in Customers : demands[i][j] = 0

\* RepeatHome with the comparison inverted
RepeatHomeInverted(c) == c = 0

\* line 85: repeat_home = chosen_idx.ne(0)
RepeatHome(c) == c # 0

\* Combined with has_no_demand summed over the whole row, without the [:, 1:]
\* slice: the depot slot is added too
CombinedAllSlots(loads_i, demands_i) ==
    LET has_no_load   == loads_i[0] = 0
        has_no_demand == demands_i[0] + SumTo(demands_i, InputSize) = 0
    IN  has_no_load \/ has_no_demand

\* Combined without has_no_demand
CombinedLoadOnly(loads_i, demands_i) == loads_i[0] = 0

\* lines 92-95: combined = (has_no_load + has_no_demand).gt(0), for one sample
Combined(loads_i, demands_i) ==
    LET has_no_load   == loads_i[0] = 0
        has_no_demand == SumTo(demands_i, InputSize) = 0
    IN  has_no_load \/ has_no_demand

\* lines 70-100 of update_mask: the mask computed from the contents dyn
UpdateMask(dyn, ch) ==
    LET S       == DOMAIN dyn
        loads   == [i \in S |-> [j \in Nodes |-> ToUnits(dyn[i].loads[j])]]
        demands == [i \in S |-> [j \in Nodes |-> ToUnits(dyn[i].demands[j])]]
        repeat_home == [i \in S |-> RepeatHome(ch[i])]
        combined    == [i \in S |-> Combined(loads[i], demands[i])]
    IN  IF NoDemandLeft(demands)
        THEN [i \in S |-> [j \in Nodes |-> 0]]
        ELSE [i \in S |-> [j \in Nodes |->
                 IF combined[i] THEN (IF j = 0 THEN 1 ELSE 0)
                 ELSE IF j = 0 THEN (IF repeat_home[i] THEN 1 ELSE 0)
                 ELSE IF demands[i][j] # 0 THEN 1 ELSE 0]]

\* line 82: new_mask = demands.ne(0) is a tensor object of its own
NewMask == "new_mask"

\* update_mask(mask, dynamic, chosen_idx) on tensor objects: "dynamic" is the
\* object passed in, line 70 reads it into the new tensor dint, and lines
\* 87-98 write to the object line 82 binds.  Gives the contents of the
\* argument after the call and the mask returned.
UpdateMaskCall(dyn, ch) ==
    LET heap    == [dynamic |-> dyn, new_mask |-> << >>]
        written == [heap EXCEPT ![NewMask] = UpdateMask(heap.dynamic, ch)]
    IN  [dynamic |-> written.dynamic, result |-> written[NewMask]]

\* ------------------------------------------------------------- reward
\* Coordinates are points of the grid 0..GridMax in each axis instead of
\* torch.rand's floats, and a distance sqrt(n) of an integer n is kept exact
\* as k * sqrt(m) with m square-free; a sum of distances is the function that
\* gives each m the sum of its k (square roots of distinct square-free
\* numbers are linearly independent over the rationals, so two sums are the
\* same number exactly when these functions are equal).
GridMax == 1
\* tour_indices.size(1): the number of decision steps recorded
TourLen == 2

Points == (0..GridMax) \X (0..GridMax)
Radicands == 1..(2 * GridMax * GridMax)

\* lines 31-32: torch.rand locations with locations[:, :, 0] = 0.
Locations(n) ==
    {st \in [1..n -> [Nodes -> Points]] : \A i \in 1..n : st[i][0] = <<0, 0>>}

RECURSIVE SquarePart(_, _)
\* the largest k <= from with k * k dividing n (n > 0)
SquarePart(n, from) ==
    IF n % (from * from) = 0 THEN from ELSE SquarePart(n, from - 1)

\* torch.sqrt of the integer n, as <<k, m>> with n = k * k * m
Sqrt(n) ==
    IF n = 0 THEN <<0, 1>>
    ELSE LET k == SquarePart(n, n) IN <<k, n \div (k * k)>>

\* torch.sum(torch.pow(a - b, 2), dim=2) for two points
SquaredDiff(a, b) ==
    (a[1] - b[1]) * (a[1] - b[1]) + (a[2] - b[2]) * (a[2] - b[2])

RECURSIVE SumDist(_, _)
\* dist.sum(1): dist[1] + ... + dist[n], per radicand
SumDist(dist, n) ==
    IF n = 0 THEN [m \in Radicands |-> 0]
    ELSE LET rest == SumDist(dist, n - 1)
         IN  [m \in Radicands |->
                 rest[m] + (IF dist[n][2] = m THEN dist[n][1] ELSE 0)]

\* Closed without the second start: the tour is not returned to the depot
ClosedNoReturn(start, tour) == <<start>> \o tour

\* line 167: y = torch.cat((start, tour, start), dim=1)
Closed(start, tour) == <<start>> \o tour \o <<start>>

\* lines 160-171, the body of the loop for one sample: st its locations, idx
\* its row of tour_indices
TourLength(st, idx) ==
    LET tour  == [t \in 1..Len(idx) |-> st[idx[t]]]
        start == st[0]
        y     == Closed(start, tour)
        dist  == [t \in 1..(Len(y) - 1) |-> Sqrt(SquaredDiff(y[t], y[t + 1]))]
    IN  SumDist(dist, Len(y) - 1)

\* reward(static, tour_indices)
Reward(st, tours) == [i \in DOMAIN st |-> TourLength(st[i], tours[i])]

\* ------------------------------------------------------------- reading the state
\* the load of sample i in integer units, as update_mask reads it (slot 0)
LoadOf(dyn, i) == ToUnits(dyn[i].loads[0])
\* the remaining demand of node j of sample i in integer units
DemandOf(dyn, i, j) == ToUnits(dyn[i].demands[j])
\* the remaining customer demand of sample i in integer units
Remaining(dyn, i) == SumTo([j \in Nodes |-> DemandOf(dyn, i, j)], InputSize)

\* ------------------------------------------------------------- steps
\* the loop calls update_dynamic with the nodes ch chosen for the batch
UpdateDynamicStep(ch) ==
    /\ pc = "dynamic"
    /\ dynamic' = UpdateDynamicCall(dynamic, ch).result
    /\ exact' = UpdateExact(exact, ch)
    /\ chosen_idx' = ch
    /\ unserved' = [i \in Samples |->
                       IF ch[i] # 0
                       THEN unserved[i] - (LoadOf(dynamic, i) - LoadOf(dynamic', i))
                       ELSE unserved[i]]
    /\ pc' = "mask"
    /\ UNCHANGED <<num_samples, max_load, max_demand, mask, rvars>>

\* the loop calls update_mask with the new tensor and the nodes just chosen
UpdateMaskStep ==
    /\ pc = "mask"
    /\ mask' = UpdateMaskCall(dynamic, chosen_idx).result
    /\ pc' = "dynamic"
    /\ UNCHANGED <<num_samples, max_load, max_demand, dynamic, chosen_idx,
                   unserved, exact, rvars>>

Next ==
    \/ \E ch \in [Samples -> Nodes] : UpdateDynamicStep(ch)
    \/ UpdateMaskStep

Spec == Init /\ [][Next]_vars

\* the arguments of a call of reward: the locations of a generated dataset
\* and a recorded tour per sample
InitReward ==
    /\ num_samples = BatchSize
    /\ max_load = MaxLoad
    /\ max_demand = MaxDemand
    /\ dynamic = << >>
    /\ exact = << >>
    /\ unserved = << >>
    /\ chosen_idx = << >>
    /\ mask = << >>
    /\ static \in Locations(BatchSize)
    /\ tour_indices \in [1..BatchSize -> [1..TourLen -> Nodes]]
    /\ tour_len = << >>
    /\ pc = "reward"

\* reward(static, tour_indices) is called
ComputeReward ==
    /\ pc = "reward"
    /\ tour_len' = Reward(static, tour_indices)
    /\ pc' = "rewarded"
    /\ UNCHANGED <<num_samples, max_load, max_demand, dynamic, chosen_idx,
                   mask, unserved, exact, static, tour_indices>>

NextReward == ComputeReward

SpecReward == InitReward /\ [][NextReward]_vars

\* the loop when the policy only chooses nodes the last mask marks legal;
\* before any mask has been returned it starts at a customer
LegalStep(ch) ==
    /\ \A i \in Samples :
          IF mask = << >> THEN ch[i] \in Customers ELSE mask[i][ch[i]] = 1
    /\ UpdateDynamicStep(ch)

NextLegal ==
    \/ \E ch \in [Samples -> Nodes] : LegalStep(ch)
    \/ UpdateMaskStep

SpecLegal == Init /\ [][NextLegal]_vars

\* the loop of an episode: every node is legal at the first step (the loop
\* starts from a mask of ones), afterwards the nodes the last mask marks
\* legal; it stops when the mask is all-zero
EpisodeStep(ch) ==
    /\ IF mask = << >> THEN TRUE ELSE \A i \in Samples : mask[i][ch[i]] = 1
    /\ UpdateDynamicStep(ch)

NextEpisode ==
    \/ \E ch \in [Samples -> Nodes] : EpisodeStep(ch)
    \/ UpdateMaskStep

\* the loop takes its next step as long as it has not stopped
SpecEpisode == Init /\ [][NextEpisode]_vars /\ WF_vars(NextEpisode)

\* the loop on a dataset of max_load DriftLoad and the default max_demand
InitDrift == InitWith(BatchSize, DriftLoad, DefaultMaxDemand)
SpecDrift == InitDrift /\ [][NextLegal]_vars

\* the same program on a batch one sample larger
InitWide == InitBatch(BatchSize + 1)
SpecWide == InitWide /\ [][Next]_vars

\* ------------------------------------------------------------- properties
Choices == [Samples -> Nodes]

Min(a, b) == IF a <= b THEN a ELSE b

\* update_mask has returned for the tensor and the choices of the state
MaskCurrent == pc = "dynamic" /\ mask # << >>

\* sample i has no customer demand left
Finished(dyn, i) == \A j \in Customers : DemandOf(dyn, i, j) = 0

\* row i of the mask is all-zero
ZeroRow(i) == \A j \in Nodes : mask[i][j] = 0

\* the tensors that differ from dyn in the rows of samples other than i only,
\* each such row being the row of some sample of the batch
OthersChanged(dyn, i) ==
    {[dyn EXCEPT ![j] = dyn[k]] : j \in (DOMAIN dyn) \ {i}, k \in DOMAIN dyn}

\* C1: the new load and demands of sample i depend only on sample i's own
\* previous row and own chosen node: changing another sample's row or choice
\* never changes the result of update_dynamic for sample i.
C1_NoCrossInstance ==
    \A i \in Samples : \A ch1 \in Choices : \A ch2 \in Choices :
        \A dyn2 \in OthersChanged(dynamic, i) \cup {dynamic} :
            ch1[i] = ch2[i] =>
                UpdateDynamic(dynamic, ch1)[i] = UpdateDynamic(dyn2, ch2)[i]

\* C2: for a sample that chooses a customer, with L its load and D the chosen
\* node's remaining demand in integer units, update_dynamic leaves the load
\* L - min(L, D) and the chosen node's demand D - min(L, D), whatever the other
\* samples chose.
C2_CustomerVisitRule ==
    \A ch \in Choices : \A i \in Samples :
        ch[i] # 0 =>
            LET L   == LoadOf(dynamic, i)
                D   == DemandOf(dynamic, i, ch[i])
                new == UpdateDynamic(dynamic, ch)
            IN  /\ LoadOf(new, i) = L - Min(L, D)
                /\ DemandOf(new, i, ch[i]) = D - Min(L, D)

\* C3: demand conservation: at every step, for every sample, the generated
\* customer demand equals the remaining customer demand plus the load served
\* at customer visits so far (unserved = generated - served).
C3_DemandConservation ==
    \A i \in Samples : unserved[i] = Remaining(dynamic, i)

\* C4 (as claimed): the mask row of a sample is all-zero if and only if all
\* customer demands of that sample are 0.
C4_RowZeroIffSampleFinished ==
    MaskCurrent => \A i \in Samples : ZeroRow(i) <=> Finished(dynamic, i)

\* C4 (amended): the mask row of a sample is all-zero if and only if all
\* customer demands of every sample of the batch are 0.
C4_RowZeroIffBatchFinished ==
    MaskCurrent =>
        \A i \in Samples : ZeroRow(i) <=> \A k \in Samples : Finished(dynamic, k)

C4_Witness ==
    /\ MaskCurrent
    /\ \A k \in Samples : Finished(dynamic, k)
    /\ \A i \in Samples : ZeroRow(i)

\* C5: load bounds: in every reachable state every load slot of every sample
\* is within [0, max_load] in integer units.
C5_LoadBounds ==
    \A i \in Samples : \A j \in Nodes :
        ToUnits(dynamic[i].loads[j]) \in 0..MaxLoad

C5_Witness ==
    /\ pc = "mask"
    /\ \E i \in Samples : chosen_idx[i] # 0 /\ LoadOf(dynamic, i) = 0
    /\ \E i \in Samples : chosen_idx[i] = 0 /\ LoadOf(dynamic, i) = MaxLoad

\* C6: the remaining demand of every customer stays within [0, max_demand]
\* and is never increased by an update_dynamic call.
C6_DemandMonotone ==
    \A i \in Samples : \A j \in Customers :
        /\ DemandOf(dynamic, i, j) \in 0..MaxDemand
        /\ \A ch \in Choices :
              DemandOf(UpdateDynamic(dynamic, ch), i, j) <= DemandOf(dynamic, i, j)

\* C7: for a sample with load > 0 and some customer demand left, update_mask
\* marks a customer legal iff its demand is nonzero and the depot legal iff
\* the node chosen last was not the depot.
C7_DefaultLegality ==
    MaskCurrent =>
        \A i \in Samples :
            (LoadOf(dynamic, i) > 0 /\ ~Finished(dynamic, i)) =>
                /\ \A j \in Customers :
                      mask[i][j] = 1 <=> DemandOf(dynamic, i, j) # 0
                /\ mask[i][0] = 1 <=> chosen_idx[i] # 0
                /\ \A j \in Nodes : mask[i][j] \in {0, 1}

C7_Witness ==
    /\ MaskCurrent
    /\ \E i \in Samples :
          /\ chosen_idx[i] = 0
          /\ LoadOf(dynamic, i) > 0
          /\ \E j \in Customers : DemandOf(dynamic, i, j) # 0
          /\ \E j \in Customers : DemandOf(dynamic, i, j) = 0
          /\ mask[i][0] = 0

\* C8: priority of the checks: when every sample is finished all rows are
\* zero; otherwise a sample with load 0 or no customer demand left gets the
\* depot as its only legal node, also when it chose the depot last.
C8_ForcedReturn ==
    MaskCurrent =>
        IF \A k \in Samples : Finished(dynamic, k)
        THEN \A i \in Samples : ZeroRow(i)
        ELSE \A i \in Samples :
                (LoadOf(dynamic, i) = 0 \/ Remaining(dynamic, i) = 0) =>
                    /\ mask[i][0] = 1
                    /\ \A j \in Customers : mask[i][j] = 0

C8_Witness ==
    /\ MaskCurrent
    /\ \E i \in Samples :
          /\ chosen_idx[i] = 0
          /\ Remaining(dynamic, i) = 0
          /\ mask[i][0] = 1
    /\ \E i \in Samples :
          /\ LoadOf(dynamic, i) = 0
          /\ Remaining(dynamic, i) > 0
          /\ mask[i][0] = 1
          /\ \A j \in Customers : mask[i][j] = 0

\* C9: a sample that chooses a customer whose demand is already 0 keeps its
\* load and all its customer demands, whatever the other samples choose.
C9_ServedCustomerNoOp ==
    \A ch \in Choices : \A i \in Samples :
        (ch[i] # 0 /\ DemandOf(dynamic, i, ch[i]) = 0) =>
            LET new == UpdateDynamic(dynamic, ch)
            IN  /\ LoadOf(new, i) = LoadOf(dynamic, i)
                /\ \A j \in Customers :
                      DemandOf(new, i, j) = DemandOf(dynamic, i, j)

MarkerValues == FloatsStored[MaxLoad]

\* the tensor dyn with the depot's demand slot of sample i holding m[i]
WithMarkers(dyn, m) ==
    [i \in DOMAIN dyn |-> [dyn[i] EXCEPT !.demands[0] = m[i]]]

\* C12: for any two tensors that differ only in the value of the depot's
\* demand slot (of any samples), update_mask returns the same mask.
C12_MarkerNotRead ==
    \A ch \in Choices : \A m \in [Samples -> MarkerValues] :
        UpdateMask(WithMarkers(dynamic, m), ch) = UpdateMask(dynamic, ch)

C12_Witness ==
    /\ MaskCurrent
    /\ \E i \in Samples :
          /\ dynamic[i].demands[0] # FZero
          /\ ~ZeroRow(i)
          /\ \E m \in [Samples -> MarkerValues] :
                WithMarkers(dynamic, m) # dynamic

AsSum(d) == [m \in Radicands |-> IF d[2] = m THEN d[1] ELSE 0]

\* the location of the point at position t of depot, tour[1..], depot
PointAt(st, idx, t) == IF t = 0 \/ t = Len(idx) + 1 THEN st[0] ELSE st[idx[t]]

RECURSIVE LegsUpTo(_, _, _)
\* the sum of the distances of the legs 0-1, ..., (t-1)-t of depot, tour, depot
LegsUpTo(st, idx, t) ==
    IF t = 0 THEN [m \in Radicands |-> 0]
    ELSE LET d    == Sqrt(SquaredDiff(PointAt(st, idx, t - 1), PointAt(st, idx, t)))
             rest == LegsUpTo(st, idx, t - 1)
         IN  [m \in Radicands |-> rest[m] + AsSum(d)[m]]

\* the tour idx with a depot visit inserted after position p
InsertDepot(idx, p) ==
    [t \in 1..(Len(idx) + 1) |->
        IF t <= p THEN idx[t] ELSE IF t = p + 1 THEN 0 ELSE idx[t - 1]]

\* position p of the tour idx is an end of it or next to a depot visit
NextToDepot(idx, p) ==
    \/ p = 0
    \/ p = Len(idx)
    \/ idx[p] = 0
    \/ idx[p + 1] = 0

\* C14: reward returns, per sample, the sum of the Euclidean distances
\* between consecutive points of depot, tour[0..k-1], depot; a tour of a single
\* customer at distance d gives 2d; inserting a depot visit next to a depot
\* visit or at either end of the tour does not change the result.
C14_TourLength ==
    pc = "rewarded" =>
        \A i \in Samples :
            /\ tour_len[i] =
                  LegsUpTo(static[i], tour_indices[i], Len(tour_indices[i]) + 1)
            /\ \A c \in Customers :
                  LET d == Sqrt(SquaredDiff(static[i][0], static[i][c]))
                  IN  TourLength(static[i], <<c>>) =
                          [m \in Radicands |-> 2 * AsSum(d)[m]]
            /\ \A p \in 0..Len(tour_indices[i]) :
                  NextToDepot(tour_indices[i], p) =>
                      TourLength(static[i], InsertDepot(tour_indices[i], p))
                          = tour_len[i]

C14_Witness ==
    /\ pc = "rewarded"
    /\ \E i \in Samples : \E p \in 1..(TourLen - 1) : \E m \in Radicands :
          /\ tour_indices[i][p] # 0
          /\ tour_indices[i][p + 1] = 0
          /\ tour_len[i][m] > 0
          /\ TourLength(static[i], InsertDepot(tour_indices[i], p))
                 = tour_len[i]

Abs(a) == IF a >= 0 THEN a ELSE 0 - a

\* C15: with a max_load that does not divide exactly, the load and the
\* remaining customer demands read back in integer units never differ from
\* the same computation done on integers by more than the one unit a single
\* divide-and-multiply pass can lose, however many steps were taken.
C15_NoDrift ==
    \A i \in Samples :
        /\ Abs(LoadOf(dynamic, i) - exact[i].load) <= 1
        /\ \A j \in Customers :
              Abs(DemandOf(dynamic, i, j) - exact[i].demands[j]) <= 1

\* the float f as an integer multiple of 2^(-e), for e >= f[3]
Scaled(f, e) == f[1] * f[2] * 2 ^ (e - f[3])

\* the float v is the float32 nearest to l - 1: exactly l - 1, or within half
\* a unit of v's last place of it
IsMinusOne(v, l) ==
    LET e    == Max(v[3], l[3])
        diff == Scaled(v, e) - (Scaled(l, e) - 2 ^ e)
    IN  \/ diff = 0
        \/ v[2] # 0 /\ 2 * Abs(diff) <= 2 ^ (e - v[3])

\* C16: for every sample that chooses a customer, update_dynamic leaves in
\* the depot's demand slot the value (new_load - 1) of the load it leaves for
\* that sample, both as stored (fractions of max_load); a sample of the same
\* batch that chooses the depot does not get it: its slot is left 0.
C16_DepotMarker ==
    \A ch \in Choices :
        LET new == UpdateDynamic(dynamic, ch)
        IN  \A i \in Samples :
                IF ch[i] # 0
                THEN IsMinusOne(new[i].demands[0], new[i].loads[0])
                ELSE new[i].demands[0] = FZero

C16_Witness ==
    /\ pc = "mask"
    /\ \E i \in Samples : \E k \in Samples :
          /\ chosen_idx[i] \in Customers
          /\ chosen_idx[k] = 0
          /\ dynamic[i].demands[0] # FZero
          /\ IsMinusOne(dynamic[i].demands[0], dynamic[i].loads[0])
          /\ dynamic[k].demands[0] = FZero

\* the batch has finished: no customer demand is left and the mask returned
\* is all-zero
Terminated ==
    IF MaskCurrent
    THEN /\ \A k \in Samples : Finished(dynamic, k)
         /\ \A i \in Samples : ZeroRow(i)
    ELSE FALSE

\* C17: from a generated initial state, when every sample chooses at every
\* step a node the last mask marks legal for it, the loop reaches after
\* finitely many steps a state where every customer demand of every sample is
\* 0 and update_mask returns the all-zero mask.
C17_EpisodeTerminates == <>Terminated

C17_Witness ==
    /\ Terminated
    /\ \E i \in Samples : chosen_idx[i] = 0
    /\ \E i \in Samples : chosen_idx[i] \in Customers

\* C18: in every reachable state in which some sample still has a customer
\* with nonzero remaining demand, update_mask returns for every sample of the
\* batch, finished or not and whatever node it chose last, a row with at
\* least one legal node.
C18_NoDeadEnd ==
    (\E k \in Samples : ~Finished(dynamic, k)) =>
        \A ch \in Choices :
            \A i \in Samples : \E j \in Nodes : UpdateMask(dynamic, ch)[i][j] = 1

C18_Witness ==
    /\ MaskCurrent
    /\ \E i \in Samples : \E k \in Samples :
          /\ Finished(dynamic, i)
          /\ chosen_idx[i] = 0
          /\ ~Finished(dynamic, k)
          /\ LoadOf(dynamic, k) = 0
          /\ mask[i][0] = 1
          /\ mask[k][0] = 1

====
